---- MODULE Spec2Model ----
(***************************************************************************)
(* ArtPriv: lifecycle of banks and donors (primary API under api/routes,   *)
(* admin API under adminside/backend), their state machines                *)
(* (utils/state_machine.py) and their audit history.                       *)
(*                                                                         *)
(* One step of the model is one database commit of one request handler,    *)
(* or a request that returns without committing.  Requests do not overlap: *)
(* while a handler that commits several times is running (pc), only its    *)
(* next commit is enabled.                                                 *)
(***************************************************************************)
EXTENDS Integers, Sequences, FiniteSets, TLC

(* ---------------- entity sets and bounds ---------------- *)
Banks == {"b1", "b2"}
Donors == {"d1"}
Admins == {"adm_super", "adm_support", "adm_viewer"}
VerifiedByVals == {"admin-1"}
NoId == "-"

\* templates a bank may upload (template ids of bank b are 1..templates[b])
MaxTemplates == 4
\* test reports stored per donor
MaxReports == 2
\* method lists a bank sends to update_counseling_config
ConfigChoices == {{}, {"call"}}
\* statuses a bank sends to verify_consent
VerifyStatuses == {"verified", "rejected"}

(* ---------------- enumerations: models/models.py ---------------- *)
DonorState == <<"VISITOR", "BANK_SELECTED", "LEAD_CREATED", "ACCOUNT_CREATED",
                "COUNSELING_REQUESTED", "CONSENT_PENDING", "CONSENT_VERIFIED",
                "TESTS_PENDING", "ELIGIBILITY_DECISION", "DONOR_ONBOARDED">>

BankState == <<"UNREGISTERED", "ACCOUNT_CREATED", "VERIFICATION_PENDING", "VERIFIED",
               "SUBSCRIPTION_PENDING", "SUBSCRIBED_ONBOARDED", "OPERATIONAL">>

ConsentStatus == {"pending", "signed", "verified", "rejected"}

EligibilityStatus == {"pending", "approved", "rejected"}

CounselingMethod == {"call", "video"}

Range(s) == {s[i] : i \in 1..Len(s)}

(* ---------------- utils/state_machine.py ---------------- *)
DONOR_STATE_TRANSITIONS ==
    [s \in Range(DonorState) |->
        CASE s = "VISITOR"              -> {"BANK_SELECTED"}
          [] s = "BANK_SELECTED"        -> {"LEAD_CREATED"}
          [] s = "LEAD_CREATED"         -> {"ACCOUNT_CREATED"}
          [] s = "ACCOUNT_CREATED"      -> {"COUNSELING_REQUESTED"}
          [] s = "COUNSELING_REQUESTED" -> {"CONSENT_PENDING"}
          [] s = "CONSENT_PENDING"      -> {"CONSENT_VERIFIED"}
          [] s = "CONSENT_VERIFIED"     -> {"TESTS_PENDING"}
          [] s = "TESTS_PENDING"        -> {"ELIGIBILITY_DECISION"}
          [] s = "ELIGIBILITY_DECISION" -> {"DONOR_ONBOARDED"}
          [] s = "DONOR_ONBOARDED"      -> {}]

BANK_STATE_TRANSITIONS ==
    [s \in Range(BankState) \ {"UNREGISTERED"} |->
        CASE s = "ACCOUNT_CREATED"      -> {"VERIFICATION_PENDING"}
          [] s = "VERIFICATION_PENDING" -> {"VERIFIED"}
          [] s = "VERIFIED"             -> {"SUBSCRIPTION_PENDING"}
          [] s = "SUBSCRIPTION_PENDING" -> {"SUBSCRIBED_ONBOARDED"}
          [] s = "SUBSCRIBED_ONBOARDED" -> {"OPERATIONAL"}
          [] s = "OPERATIONAL"          -> {}]

\* mutant: a transition to the current state is accepted as well
can_transition_donor_state_or_same(current_state, new_state) ==
    /\ current_state \in DOMAIN DONOR_STATE_TRANSITIONS
    /\ \/ new_state \in DONOR_STATE_TRANSITIONS[current_state]
       \/ new_state = current_state

can_transition_donor_state(current_state, new_state) ==
    /\ current_state \in DOMAIN DONOR_STATE_TRANSITIONS
    /\ new_state \in DONOR_STATE_TRANSITIONS[current_state]

\* mutant: the state after the next one is accepted as well
can_transition_bank_state_or_skip(current_state, new_state) ==
    /\ current_state \in DOMAIN BANK_STATE_TRANSITIONS
    /\ \/ new_state \in BANK_STATE_TRANSITIONS[current_state]
       \/ \E mid \in BANK_STATE_TRANSITIONS[current_state] :
             new_state \in BANK_STATE_TRANSITIONS[mid]

can_transition_bank_state(current_state, new_state) ==
    /\ current_state \in DOMAIN BANK_STATE_TRANSITIONS
    /\ new_state \in BANK_STATE_TRANSITIONS[current_state]

(* ---------------- state ---------------- *)
VARIABLES
    autoflush,   \* whether the database session flushes pending changes before a query
    banks,       \* banks table
    templates,   \* consent_templates: number of templates of each bank
    donors,      \* donors table, with each donor's donor_consents and test_reports
    bhist,       \* bank_state_history rows of each bank, in creation order
    dhist,       \* donor_state_history rows of each donor, in creation order
    pc,          \* the handler that is between two of its commits, if any
    response     \* outcome of the last request ("running" between two commits)

vars == <<autoflush, banks, templates, donors, bhist, dhist, pc, response>>

NoBank == [exists |-> FALSE, state |-> "UNREGISTERED", is_verified |-> FALSE,
           verified_by |-> NoId, is_subscribed |-> FALSE,
           certification_documents |-> 0,
           counseling_config |-> [present |-> FALSE, methods |-> {}]]

NoConsents == [t \in 1..MaxTemplates |-> "none"]

NoDonor == [exists |-> FALSE, state |-> "VISITOR", bank_id |-> NoId,
            hashed_password |-> FALSE, eligibility_status |-> "pending",
            consents |-> NoConsents, test_reports |-> 0, counseling_sessions |-> 0]

Idle == [op |-> "idle", bank |-> NoId, donor |-> NoId, status |-> NoId]

Init ==
    /\ autoflush \in BOOLEAN
    /\ banks = [b \in Banks |-> NoBank]
    /\ templates = [b \in Banks |-> 0]
    /\ donors = [d \in Donors |-> NoDonor]
    /\ bhist = [b \in Banks |-> <<>>]
    /\ dhist = [d \in Donors |-> <<>>]
    /\ pc = Idle
    /\ response = "none"

Respond(code) == response' = code

(* ---------------- utils/state_machine.py: transitions ---------------- *)
\* mutant: the bank's single history row is rewritten instead of a row being added
transition_bank_state_one_row(b, rec, new_state) ==
    /\ can_transition_bank_state(rec.state, new_state)
    /\ banks' = [banks EXCEPT ![b] = [rec EXCEPT !.state = new_state]]
    /\ bhist' = [bhist EXCEPT ![b] =
                    << [from_state |-> rec.state, to_state |-> new_state] >>]

\* rec is the session's copy of the row, with the handler's pending field changes
transition_bank_state(b, rec, new_state) ==
    /\ can_transition_bank_state(rec.state, new_state)
    /\ banks' = [banks EXCEPT ![b] = [rec EXCEPT !.state = new_state]]
    /\ bhist' = [bhist EXCEPT ![b] =
                    Append(@, [from_state |-> rec.state, to_state |-> new_state])]

\* mutant: old_state is read after the assignment, so the row records the new state twice
transition_donor_state_stale(d, rec, new_state, changed_by_role) ==
    /\ can_transition_donor_state(rec.state, new_state)
    /\ donors' = [donors EXCEPT ![d] = [rec EXCEPT !.state = new_state]]
    /\ dhist' = [dhist EXCEPT ![d] =
                    Append(@, [from_state |-> new_state, to_state |-> new_state,
                               changed_by_role |-> changed_by_role])]

transition_donor_state(d, rec, new_state, changed_by_role) ==
    /\ can_transition_donor_state(rec.state, new_state)
    /\ donors' = [donors EXCEPT ![d] = [rec EXCEPT !.state = new_state]]
    /\ dhist' = [dhist EXCEPT ![d] =
                    Append(@, [from_state |-> rec.state, to_state |-> new_state,
                               changed_by_role |-> changed_by_role])]

(* ---------------- utils/dependencies.py ---------------- *)
\* outcome of the dependency chain for a caller presenting bank b's token
get_current_bank(b) == IF banks[b].exists THEN "ok" ELSE "unauthorized"

get_verified_bank(b) ==
    IF get_current_bank(b) # "ok" THEN get_current_bank(b)
    ELSE IF ~banks[b].is_verified THEN "forbidden" ELSE "ok"

\* mutant: the subscription flag is not checked
get_subscribed_bank_unchecked(b) == get_verified_bank(b)

get_subscribed_bank(b) ==
    IF get_verified_bank(b) # "ok" THEN get_verified_bank(b)
    ELSE IF ~banks[b].is_subscribed THEN "forbidden" ELSE "ok"

(* ---------------- api/routes/auth.py ---------------- *)
register_bank(b) ==
    /\ pc = Idle
    /\ IF banks[b].exists
       THEN /\ Respond("bad_request")
            /\ UNCHANGED banks
       ELSE /\ banks' = [banks EXCEPT ![b] =
                            [NoBank EXCEPT !.exists = TRUE, !.state = "ACCOUNT_CREATED"]]
            /\ Respond("ok")
    /\ UNCHANGED <<autoflush, templates, donors, bhist, dhist, pc>>

(* ---------------- api/routes/bank.py: bank profile ---------------- *)
upload_certification(b) ==
    /\ pc = Idle
    /\ IF get_current_bank(b) # "ok"
       THEN /\ Respond(get_current_bank(b))
            /\ UNCHANGED <<banks, bhist>>
       ELSE LET \* an in-place append to a list that is already stored is not
                \* tracked by the session; only the first document is written
                rec == [banks[b] EXCEPT !.certification_documents =
                            IF @ = 0 THEN 1 ELSE @]
            IN  /\ IF banks[b].state = "ACCOUNT_CREATED"
                   THEN transition_bank_state(b, rec, "VERIFICATION_PENDING")
                   ELSE /\ banks' = [banks EXCEPT ![b] = rec]
                        /\ UNCHANGED bhist
                /\ Respond("ok")
    /\ UNCHANGED <<autoflush, templates, donors, dhist, pc>>

update_counseling_config(b, methods) ==
    /\ pc = Idle
    /\ IF get_subscribed_bank(b) # "ok"
       THEN /\ Respond(get_subscribed_bank(b))
            /\ UNCHANGED banks
       ELSE IF methods = {}
       THEN /\ Respond("unprocessable")
            /\ UNCHANGED banks
       ELSE /\ banks' = [banks EXCEPT ![b] = [@ EXCEPT !.counseling_config =
                                                   [present |-> TRUE, methods |-> methods]]]
            /\ Respond("ok")
    /\ UNCHANGED <<autoflush, templates, donors, bhist, dhist, pc>>

\* mutant: the state check is made after the first transition has been committed
create_subscription_late_check(b) ==
    /\ pc = Idle
    /\ IF get_verified_bank(b) # "ok"
       THEN /\ Respond(get_verified_bank(b))
            /\ UNCHANGED <<banks, bhist, pc>>
       ELSE /\ banks[b].state = "VERIFIED"
            /\ transition_bank_state(b, [banks[b] EXCEPT !.is_subscribed = TRUE],
                                     "SUBSCRIPTION_PENDING")
            /\ pc' = Idle
            /\ Respond("bad_request")
    /\ UNCHANGED <<autoflush, templates, donors, dhist>>

\* mutant: the subscription flag is not set before the transitions
create_subscription_unflagged(b) ==
    /\ pc = Idle
    /\ IF get_verified_bank(b) # "ok"
       THEN /\ Respond(get_verified_bank(b))
            /\ UNCHANGED <<banks, bhist, pc>>
       ELSE IF banks[b].state # "VERIFIED"
       THEN /\ Respond("bad_request")
            /\ UNCHANGED <<banks, bhist, pc>>
       ELSE /\ transition_bank_state(b, banks[b], "SUBSCRIPTION_PENDING")
            /\ pc' = [Idle EXCEPT !.op = "create_subscription", !.bank = b]
            /\ Respond("running")
    /\ UNCHANGED <<autoflush, templates, donors, dhist>>

\* create_subscription commits three times, once per transition
create_subscription(b) ==
    /\ pc = Idle
    /\ IF get_verified_bank(b) # "ok"
       THEN /\ Respond(get_verified_bank(b))
            /\ UNCHANGED <<banks, bhist, pc>>
       ELSE IF banks[b].state # "VERIFIED"
       THEN /\ Respond("bad_request")
            /\ UNCHANGED <<banks, bhist, pc>>
       ELSE /\ transition_bank_state(b, [banks[b] EXCEPT !.is_subscribed = TRUE],
                                     "SUBSCRIPTION_PENDING")
            /\ pc' = [Idle EXCEPT !.op = "create_subscription", !.bank = b]
            /\ Respond("running")
    /\ UNCHANGED <<autoflush, templates, donors, dhist>>

create_subscription_next ==
    /\ pc.op = "create_subscription"
    /\ LET b == pc.bank
       IN  IF banks[b].state = "SUBSCRIPTION_PENDING"
           THEN /\ transition_bank_state(b, banks[b], "SUBSCRIBED_ONBOARDED")
                /\ UNCHANGED <<pc, response>>
           ELSE /\ transition_bank_state(b, banks[b], "OPERATIONAL")
                /\ pc' = Idle
                /\ Respond("ok")
    /\ UNCHANGED <<autoflush, templates, donors, dhist>>

get_current_donor(d) ==
    \* a donor token is issued by login_donor, which needs a stored password
    IF donors[d].exists /\ donors[d].hashed_password THEN "ok" ELSE "unauthorized"

\* the read-only donor routes of a bank: the answer is the only effect
get_my_donors(b) ==
    /\ pc = Idle
    /\ Respond(get_subscribed_bank(b))
    /\ UNCHANGED <<autoflush, banks, templates, donors, bhist, dhist, pc>>

(* ---------------- api/routes/bank.py: consent templates ---------------- *)
upload_consent_template(b) ==
    /\ pc = Idle
    /\ IF get_current_bank(b) # "ok"
       THEN /\ Respond(get_current_bank(b))
            /\ UNCHANGED templates
       ELSE /\ templates[b] < MaxTemplates
            /\ templates' = [templates EXCEPT ![b] = @ + 1]
            /\ Respond("ok")
    /\ UNCHANGED <<autoflush, banks, donors, bhist, dhist, pc>>

(* ---------------- api/routes/donor.py ---------------- *)
\* mutant: the bank's subscription is not checked
create_lead_any_verified(d, b) ==
    /\ pc = Idle
    /\ IF ~banks[b].exists \/ ~banks[b].is_verified
       THEN /\ Respond("bad_request")
            /\ UNCHANGED <<donors, pc>>
       ELSE IF donors[d].exists
       THEN /\ Respond("bad_request")
            /\ UNCHANGED <<donors, pc>>
       ELSE /\ donors' = [donors EXCEPT ![d] =
                            [NoDonor EXCEPT !.exists = TRUE, !.bank_id = b,
                                            !.state = "BANK_SELECTED"]]
            /\ pc' = [Idle EXCEPT !.op = "create_lead", !.donor = d, !.bank = b]
            /\ Respond("running")
    /\ UNCHANGED <<autoflush, banks, templates, bhist, dhist>>

\* create_lead commits the new row, then commits its transition
create_lead(d, b) ==
    /\ pc = Idle
    /\ IF ~banks[b].exists \/ ~banks[b].is_verified \/ ~banks[b].is_subscribed
       THEN /\ Respond("bad_request")
            /\ UNCHANGED <<donors, pc>>
       ELSE IF donors[d].exists
       THEN /\ Respond("bad_request")
            /\ UNCHANGED <<donors, pc>>
       ELSE /\ donors' = [donors EXCEPT ![d] =
                            [NoDonor EXCEPT !.exists = TRUE, !.bank_id = b,
                                            !.state = "BANK_SELECTED"]]
            /\ pc' = [Idle EXCEPT !.op = "create_lead", !.donor = d, !.bank = b]
            /\ Respond("running")
    /\ UNCHANGED <<autoflush, banks, templates, bhist, dhist>>

create_lead_next ==
    /\ pc.op = "create_lead"
    /\ transition_donor_state(pc.donor, donors[pc.donor], "LEAD_CREATED", "donor")
    /\ pc' = Idle
    /\ Respond("ok")
    /\ UNCHANGED <<autoflush, banks, templates, bhist>>

create_account(d) ==
    /\ pc = Idle
    /\ IF ~donors[d].exists
       THEN /\ Respond("not_found")
            /\ UNCHANGED <<donors, dhist>>
       ELSE IF donors[d].state # "LEAD_CREATED"
       THEN /\ Respond("bad_request")
            /\ UNCHANGED <<donors, dhist>>
       ELSE /\ transition_donor_state(d, [donors[d] EXCEPT !.hashed_password = TRUE],
                                      "ACCOUNT_CREATED", "donor")
            /\ Respond("ok")
    /\ UNCHANGED <<autoflush, banks, templates, bhist, pc>>

\* mutant: the method is not compared with the bank's configuration
request_counseling_any_method(d, method) ==
    /\ pc = Idle
    /\ IF get_current_donor(d) # "ok"
       THEN /\ Respond(get_current_donor(d))
            /\ UNCHANGED <<donors, dhist>>
       ELSE IF donors[d].state # "ACCOUNT_CREATED"
       THEN /\ Respond("bad_request")
            /\ UNCHANGED <<donors, dhist>>
       ELSE /\ transition_donor_state(d, [donors[d] EXCEPT !.counseling_sessions = @ + 1],
                                      "COUNSELING_REQUESTED", "donor")
            /\ Respond("ok")
    /\ UNCHANGED <<autoflush, banks, templates, bhist, pc>>

request_counseling(d, method) ==
    /\ pc = Idle
    /\ IF get_current_donor(d) # "ok"
       THEN /\ Respond(get_current_donor(d))
            /\ UNCHANGED <<donors, dhist>>
       ELSE IF donors[d].state # "ACCOUNT_CREATED"
       THEN /\ Respond("bad_request")
            /\ UNCHANGED <<donors, dhist>>
       ELSE IF /\ banks[donors[d].bank_id].counseling_config.present
               /\ method \notin banks[donors[d].bank_id].counseling_config.methods
       THEN /\ Respond("bad_request")
            /\ UNCHANGED <<donors, dhist>>
       ELSE /\ transition_donor_state(d, [donors[d] EXCEPT !.counseling_sessions = @ + 1],
                                      "COUNSELING_REQUESTED", "donor")
            /\ Respond("ok")
    /\ UNCHANGED <<autoflush, banks, templates, bhist, pc>>

\* number of the donor's consent rows whose status is in S, in a table cs
CountConsents(cs, S) == Cardinality({t \in DOMAIN cs : cs[t] \in S})

\* mutant: an existing consent row is signed again instead of being rejected
sign_consent_again(d, t) ==
    /\ pc = Idle
    /\ IF get_current_donor(d) # "ok"
       THEN /\ Respond(get_current_donor(d))
            /\ UNCHANGED <<donors, dhist>>
       ELSE IF donors[d].state \notin
                 {"CONSENT_PENDING", "COUNSELING_REQUESTED", "ACCOUNT_CREATED"}
       THEN /\ Respond("bad_request")
            /\ UNCHANGED <<donors, dhist>>
       ELSE IF t > templates[donors[d].bank_id]
       THEN /\ Respond("not_found")
            /\ UNCHANGED <<donors, dhist>>
       ELSE LET rec == [donors[d] EXCEPT !.consents[t] = "signed"]
                seen == IF autoflush THEN rec.consents ELSE donors[d].consents
                total_consents == CountConsents(seen, {"signed"})
            IN  /\ IF donors[d].state = "COUNSELING_REQUESTED" /\ total_consents = 0
                   THEN transition_donor_state(d, rec, "CONSENT_PENDING", "donor")
                   ELSE /\ donors' = [donors EXCEPT ![d] = rec]
                        /\ UNCHANGED dhist
                /\ Respond("ok")
    /\ UNCHANGED <<autoflush, banks, templates, bhist, pc>>

sign_consent(d, t) ==
    /\ pc = Idle
    /\ IF get_current_donor(d) # "ok"
       THEN /\ Respond(get_current_donor(d))
            /\ UNCHANGED <<donors, dhist>>
       ELSE IF donors[d].state \notin
                 {"CONSENT_PENDING", "COUNSELING_REQUESTED", "ACCOUNT_CREATED"}
       THEN /\ Respond("bad_request")
            /\ UNCHANGED <<donors, dhist>>
       ELSE IF t > templates[donors[d].bank_id]
       THEN /\ Respond("not_found")
            /\ UNCHANGED <<donors, dhist>>
       ELSE IF donors[d].consents[t] # "none"
       THEN /\ Respond("bad_request")
            /\ UNCHANGED <<donors, dhist>>
       ELSE LET rec == [donors[d] EXCEPT !.consents[t] = "signed"]
                \* the count query sees the added row only if the session flushed it
                seen == IF autoflush THEN rec.consents ELSE donors[d].consents
                total_consents == CountConsents(seen, {"signed"})
            IN  /\ IF donors[d].state = "COUNSELING_REQUESTED" /\ total_consents = 0
                   THEN transition_donor_state(d, rec, "CONSENT_PENDING", "donor")
                   ELSE /\ donors' = [donors EXCEPT ![d] = rec]
                        /\ UNCHANGED dhist
                /\ Respond("ok")
    /\ UNCHANGED <<autoflush, banks, templates, bhist, pc>>

(* ---------------- api/routes/bank.py: donor management ---------------- *)
\* the consent row addressed is the one of donor d for template t
verify_consent(b, d, t, status) ==
    /\ pc = Idle
    /\ IF get_subscribed_bank(b) # "ok"
       THEN /\ Respond(get_subscribed_bank(b))
            /\ UNCHANGED <<donors, dhist>>
       ELSE IF ~donors[d].exists \/ donors[d].consents[t] = "none"
       THEN /\ Respond("not_found")
            /\ UNCHANGED <<donors, dhist>>
       ELSE IF donors[d].bank_id # b
       THEN /\ Respond("forbidden")
            /\ UNCHANGED <<donors, dhist>>
       ELSE LET rec == [donors[d] EXCEPT !.consents[t] = status]
                \* the count queries see the new status only if the session flushed it
                seen == IF autoflush THEN rec.consents ELSE donors[d].consents
                total_consents == CountConsents(seen, ConsentStatus)
                verified_consents == CountConsents(seen, {"verified"})
            IN  /\ IF /\ total_consents >= 4 /\ verified_consents >= 4
                      /\ donors[d].state = "CONSENT_PENDING"
                   THEN transition_donor_state(d, rec, "CONSENT_VERIFIED", "bank")
                   ELSE /\ donors' = [donors EXCEPT ![d] = rec]
                        /\ UNCHANGED dhist
                /\ Respond("ok")
    /\ UNCHANGED <<autoflush, banks, templates, bhist, pc>>

\* mutant: the donor's state is not validated before the report is stored
upload_test_report_any_state(b, d) ==
    /\ pc = Idle
    /\ IF get_subscribed_bank(b) # "ok"
       THEN /\ Respond(get_subscribed_bank(b))
            /\ UNCHANGED <<donors, dhist>>
       ELSE IF ~donors[d].exists \/ donors[d].bank_id # b
       THEN /\ Respond("not_found")
            /\ UNCHANGED <<donors, dhist>>
       ELSE LET rec == [donors[d] EXCEPT !.test_reports = @ + 1]
            IN  /\ donors[d].test_reports < MaxReports
                /\ IF donors[d].state = "CONSENT_VERIFIED"
                   THEN transition_donor_state(d, rec, "TESTS_PENDING", "bank")
                   ELSE /\ donors' = [donors EXCEPT ![d] = rec]
                        /\ UNCHANGED dhist
                /\ Respond("ok")
    /\ UNCHANGED <<autoflush, banks, templates, bhist, pc>>

upload_test_report(b, d) ==
    /\ pc = Idle
    /\ IF get_subscribed_bank(b) # "ok"
       THEN /\ Respond(get_subscribed_bank(b))
            /\ UNCHANGED <<donors, dhist>>
       ELSE IF ~donors[d].exists \/ donors[d].bank_id # b
       THEN /\ Respond("not_found")
            /\ UNCHANGED <<donors, dhist>>
       ELSE IF donors[d].state \notin {"CONSENT_VERIFIED", "TESTS_PENDING"}
       THEN /\ Respond("bad_request")
            /\ UNCHANGED <<donors, dhist>>
       ELSE LET rec == [donors[d] EXCEPT !.test_reports = @ + 1]
            IN  /\ donors[d].test_reports < MaxReports
                /\ IF donors[d].state = "CONSENT_VERIFIED"
                   THEN transition_donor_state(d, rec, "TESTS_PENDING", "bank")
                   ELSE /\ donors' = [donors EXCEPT ![d] = rec]
                        /\ UNCHANGED dhist
                /\ Respond("ok")
    /\ UNCHANGED <<autoflush, banks, templates, bhist, pc>>

\* mutant: an approval writes DONOR_ONBOARDED directly, both rows in one commit
make_eligibility_decision_direct(b, d, status) ==
    /\ pc = Idle
    /\ IF get_subscribed_bank(b) # "ok"
       THEN /\ Respond(get_subscribed_bank(b))
            /\ UNCHANGED <<donors, dhist, pc>>
       ELSE IF ~donors[d].exists \/ donors[d].bank_id # b
       THEN /\ Respond("not_found")
            /\ UNCHANGED <<donors, dhist, pc>>
       ELSE IF donors[d].state # "TESTS_PENDING"
       THEN /\ Respond("bad_request")
            /\ UNCHANGED <<donors, dhist, pc>>
       ELSE /\ donors' = [donors EXCEPT ![d] =
                            [@ EXCEPT !.eligibility_status = status,
                                      !.state = IF status = "approved"
                                                THEN "DONOR_ONBOARDED"
                                                ELSE "ELIGIBILITY_DECISION"]]
            /\ dhist' = [dhist EXCEPT ![d] =
                            Append(@, [from_state |-> "TESTS_PENDING",
                                       to_state |-> "ELIGIBILITY_DECISION",
                                       changed_by_role |-> "bank"])
                            \o (IF status = "approved"
                                THEN << [from_state |-> "ELIGIBILITY_DECISION",
                                         to_state |-> "DONOR_ONBOARDED",
                                         changed_by_role |-> "bank"] >>
                                ELSE << >>)]
            /\ pc' = Idle
            /\ Respond("ok")
    /\ UNCHANGED <<autoflush, banks, templates, bhist>>

\* mutant: the donor is onboarded whatever the decision
make_eligibility_decision_any_status(b, d, status) ==
    /\ pc = Idle
    /\ IF get_subscribed_bank(b) # "ok"
       THEN /\ Respond(get_subscribed_bank(b))
            /\ UNCHANGED <<donors, dhist, pc>>
       ELSE IF ~donors[d].exists \/ donors[d].bank_id # b
       THEN /\ Respond("not_found")
            /\ UNCHANGED <<donors, dhist, pc>>
       ELSE IF donors[d].state # "TESTS_PENDING"
       THEN /\ Respond("bad_request")
            /\ UNCHANGED <<donors, dhist, pc>>
       ELSE /\ transition_donor_state(d, [donors[d] EXCEPT !.eligibility_status = status],
                                      "ELIGIBILITY_DECISION", "bank")
            /\ pc' = [Idle EXCEPT !.op = "make_eligibility_decision",
                                  !.bank = b, !.donor = d]
            /\ Respond("running")
    /\ UNCHANGED <<autoflush, banks, templates, bhist>>

\* make_eligibility_decision commits once per transition
make_eligibility_decision(b, d, status) ==
    /\ pc = Idle
    /\ IF get_subscribed_bank(b) # "ok"
       THEN /\ Respond(get_subscribed_bank(b))
            /\ UNCHANGED <<donors, dhist, pc>>
       ELSE IF ~donors[d].exists \/ donors[d].bank_id # b
       THEN /\ Respond("not_found")
            /\ UNCHANGED <<donors, dhist, pc>>
       ELSE IF donors[d].state # "TESTS_PENDING"
       THEN /\ Respond("bad_request")
            /\ UNCHANGED <<donors, dhist, pc>>
       ELSE /\ transition_donor_state(d, [donors[d] EXCEPT !.eligibility_status = status],
                                      "ELIGIBILITY_DECISION", "bank")
            /\ IF status = "approved"
               THEN /\ pc' = [Idle EXCEPT !.op = "make_eligibility_decision",
                                          !.bank = b, !.donor = d]
                    /\ Respond("running")
               ELSE /\ pc' = Idle
                    /\ Respond("ok")
    /\ UNCHANGED <<autoflush, banks, templates, bhist>>

make_eligibility_decision_next ==
    /\ pc.op = "make_eligibility_decision"
    /\ transition_donor_state(pc.donor, donors[pc.donor], "DONOR_ONBOARDED", "bank")
    /\ pc' = Idle
    /\ Respond("ok")
    /\ UNCHANGED <<autoflush, banks, templates, bhist>>

(* ---------------- adminside/backend/routes.py ---------------- *)
AdminRole == [a \in Admins |->
                CASE a = "adm_super"   -> "super_admin"
                  [] a = "adm_support" -> "support"
                  [] OTHER             -> "viewer"]

\* mutant: the admin's role is not compared with the required roles
require_role_any(a, required_roles) ==
    IF AdminRole[a] \in {"super_admin", "support", "viewer"} THEN "ok" ELSE "forbidden"

require_role(a, required_roles) ==
    IF AdminRole[a] \in required_roles THEN "ok" ELSE "forbidden"

\* mutant: the state is advanced to VERIFIED from whatever state the bank is in
verify_bank_any_state(a, b, verified_by) ==
    /\ pc = Idle
    /\ IF require_role(a, {"super_admin", "support"}) # "ok"
       THEN /\ Respond("forbidden")
            /\ UNCHANGED banks
       ELSE IF ~banks[b].exists
       THEN /\ Respond("not_found")
            /\ UNCHANGED banks
       ELSE IF banks[b].is_verified
       THEN /\ Respond("bad_request")
            /\ UNCHANGED banks
       ELSE /\ banks' = [banks EXCEPT ![b] =
                            [@ EXCEPT !.is_verified = TRUE,
                                      !.verified_by = verified_by,
                                      !.state = "VERIFIED"]]
            /\ Respond("ok")
    /\ UNCHANGED <<autoflush, templates, donors, bhist, dhist, pc>>

\* mutant: the verifier named in the request is not stored
verify_bank_no_verifier(a, b, verified_by) ==
    /\ pc = Idle
    /\ IF require_role(a, {"super_admin", "support"}) # "ok"
       THEN /\ Respond("forbidden")
            /\ UNCHANGED banks
       ELSE IF ~banks[b].exists
       THEN /\ Respond("not_found")
            /\ UNCHANGED banks
       ELSE IF banks[b].is_verified
       THEN /\ Respond("bad_request")
            /\ UNCHANGED banks
       ELSE /\ banks' = [banks EXCEPT ![b] =
                            [@ EXCEPT !.is_verified = TRUE,
                                      !.state = IF @ = "VERIFICATION_PENDING"
                                                THEN "VERIFIED" ELSE @]]
            /\ Respond("ok")
    /\ UNCHANGED <<autoflush, templates, donors, bhist, dhist, pc>>

verify_bank(a, b, verified_by) ==
    /\ pc = Idle
    /\ IF require_role(a, {"super_admin", "support"}) # "ok"
       THEN /\ Respond("forbidden")
            /\ UNCHANGED banks
       ELSE IF ~banks[b].exists
       THEN /\ Respond("not_found")
            /\ UNCHANGED banks
       ELSE IF banks[b].is_verified
       THEN /\ Respond("bad_request")
            /\ UNCHANGED banks
       ELSE /\ banks' = [banks EXCEPT ![b] =
                            [@ EXCEPT !.is_verified = TRUE,
                                      !.verified_by = verified_by,
                                      !.state = IF @ = "VERIFICATION_PENDING"
                                                THEN "VERIFIED" ELSE @]]
            /\ Respond("ok")
    /\ UNCHANGED <<autoflush, templates, donors, bhist, dhist, pc>>

\* mutant: the state is advanced but the subscription flag is not set
update_bank_subscription_state_only(a, b) ==
    /\ pc = Idle
    /\ IF require_role(a, {"super_admin", "support"}) # "ok"
       THEN /\ Respond("forbidden")
            /\ UNCHANGED banks
       ELSE IF ~banks[b].exists
       THEN /\ Respond("not_found")
            /\ UNCHANGED banks
       ELSE IF ~banks[b].is_verified
       THEN /\ Respond("bad_request")
            /\ UNCHANGED banks
       ELSE /\ banks' = [banks EXCEPT ![b] =
                            [@ EXCEPT !.state = IF @ \in {"VERIFIED", "SUBSCRIPTION_PENDING"}
                                                THEN "SUBSCRIBED_ONBOARDED" ELSE @]]
            /\ Respond("ok")
    /\ UNCHANGED <<autoflush, templates, donors, bhist, dhist, pc>>

update_bank_subscription(a, b) ==
    /\ pc = Idle
    /\ IF require_role(a, {"super_admin", "support"}) # "ok"
       THEN /\ Respond("forbidden")
            /\ UNCHANGED banks
       ELSE IF ~banks[b].exists
       THEN /\ Respond("not_found")
            /\ UNCHANGED banks
       ELSE IF ~banks[b].is_verified
       THEN /\ Respond("bad_request")
            /\ UNCHANGED banks
       ELSE /\ banks' = [banks EXCEPT ![b] =
                            [@ EXCEPT !.is_subscribed = TRUE,
                                      !.state = IF @ \in {"VERIFIED", "SUBSCRIPTION_PENDING"}
                                                THEN "SUBSCRIBED_ONBOARDED" ELSE @]]
            /\ Respond("ok")
    /\ UNCHANGED <<autoflush, templates, donors, bhist, dhist, pc>>

(* ---------------- specifications ---------------- *)
\* Spec: the whole system from an empty database, every request made on
\* behalf of (or naming) a bank of Tenants.
Tenants == {"b1"}

Next ==
    \/ \E b \in Tenants : register_bank(b)
    \/ \E b \in Tenants : upload_certification(b)
    \/ \E b \in Tenants, m \in ConfigChoices : update_counseling_config(b, m)
    \/ \E b \in Tenants : create_subscription(b)
    \/ create_subscription_next
    \/ \E a \in Admins, b \in Tenants, v \in VerifiedByVals : verify_bank(a, b, v)
    \/ \E a \in Admins, b \in Tenants : update_bank_subscription(a, b)
    \/ \E b \in Tenants : get_my_donors(b)
    \/ \E b \in Tenants : upload_consent_template(b)
    \/ \E d \in Donors, b \in Tenants : create_lead(d, b)
    \/ create_lead_next
    \/ \E d \in Donors : create_account(d)
    \/ \E d \in Donors, m \in CounselingMethod : request_counseling(d, m)
    \/ \E d \in Donors, t \in 1..MaxTemplates : sign_consent(d, t)
    \/ \E b \in Tenants, d \in Donors, t \in 1..MaxTemplates, s \in VerifyStatuses :
            verify_consent(b, d, t, s)
    \/ \E b \in Tenants, d \in Donors : upload_test_report(b, d)
    \/ \E b \in Tenants, d \in Donors, s \in EligibilityStatus :
            make_eligibility_decision(b, d, s)
    \/ make_eligibility_decision_next

Spec == Init /\ [][Next]_vars

\* SpecDonor: the donor workflow with two banks whose onboarding is over.
\* Each bank is either operational (certification uploaded, verified by an
\* admin, subscribed through create_subscription) or only registered; every
\* bank has uploaded its templates.
OperationalBank ==
    [NoBank EXCEPT !.exists = TRUE, !.state = "OPERATIONAL", !.is_verified = TRUE,
                   !.verified_by = "admin-1", !.is_subscribed = TRUE,
                   !.certification_documents = 1]

OperationalHistory ==
    << [from_state |-> "ACCOUNT_CREATED",      to_state |-> "VERIFICATION_PENDING"],
       [from_state |-> "VERIFIED",             to_state |-> "SUBSCRIPTION_PENDING"],
       [from_state |-> "SUBSCRIPTION_PENDING", to_state |-> "SUBSCRIBED_ONBOARDED"],
       [from_state |-> "SUBSCRIBED_ONBOARDED", to_state |-> "OPERATIONAL"] >>

RegisteredBank == [NoBank EXCEPT !.exists = TRUE, !.state = "ACCOUNT_CREATED"]

InitDonor ==
    /\ autoflush \in BOOLEAN
    /\ banks \in [Banks -> {OperationalBank, RegisteredBank}]
    /\ templates = [b \in Banks |-> MaxTemplates]
    /\ donors = [d \in Donors |-> NoDonor]
    /\ bhist = [b \in Banks |->
                  IF banks[b] = OperationalBank THEN OperationalHistory ELSE <<>>]
    /\ dhist = [d \in Donors |-> <<>>]
    /\ pc = Idle
    /\ response = "none"

NextDonor ==
    \/ \E d \in Donors, b \in Banks : create_lead(d, b)
    \/ create_lead_next
    \/ \E d \in Donors : create_account(d)
    \/ \E d \in Donors, m \in CounselingMethod : request_counseling(d, m)
    \/ \E d \in Donors, t \in 1..MaxTemplates : sign_consent(d, t)
    \/ \E b \in Banks, d \in Donors, t \in 1..MaxTemplates, s \in VerifyStatuses :
            verify_consent(b, d, t, s)
    \/ \E b \in Banks, d \in Donors : upload_test_report(b, d)
    \/ \E b \in Banks, d \in Donors, s \in EligibilityStatus :
            make_eligibility_decision(b, d, s)
    \/ make_eligibility_decision_next

SpecDonor == InitDonor /\ [][NextDonor]_vars

(* ---------------- requests that fail between two commits ---------------- *)
\* SpecFail: as Spec, and a handler that has committed and has more commits
\* to make may stop there with an error (the next db.commit or db.refresh
\* raises, or the worker stops); nothing undoes the commits already made.
request_fails ==
    /\ pc.op \in {"create_subscription", "create_lead", "make_eligibility_decision"}
    /\ pc' = Idle
    /\ Respond("server_error")
    /\ UNCHANGED <<autoflush, banks, templates, donors, bhist, dhist>>

NextFail ==
    \/ Next
    \/ request_fails

SpecFail == Init /\ [][NextFail]_vars

(* ---------------- overlapping requests ---------------- *)
\* SpecRace: two requests in flight.  A handler's dependency
\* (get_current_user) loads the caller's row into the request's session; the
\* handler body runs later (upload_certification awaits the file upload
\* first) on that loaded row, while its queries read the database.  Here pc
\* maps each request to the handler it runs and the state its session loaded.
Requests == {"r1", "r2"}

NoSession == [op |-> "idle", id |-> NoId, state |-> NoId]

AccountHistory ==
    << [from_state |-> "BANK_SELECTED", to_state |-> "LEAD_CREATED",
        changed_by_role |-> "donor"],
       [from_state |-> "LEAD_CREATED", to_state |-> "ACCOUNT_CREATED",
        changed_by_role |-> "donor"] >>

\* b1 has registered, b2 is operational, d1 has created its account with b2
InitRace ==
    /\ autoflush \in BOOLEAN
    /\ banks = [b \in Banks |-> IF b = "b1" THEN RegisteredBank ELSE OperationalBank]
    /\ templates = [b \in Banks |-> IF b = "b1" THEN 0 ELSE MaxTemplates]
    /\ donors = [d \in Donors |->
                   [NoDonor EXCEPT !.exists = TRUE, !.state = "ACCOUNT_CREATED",
                                   !.bank_id = "b2", !.hashed_password = TRUE]]
    /\ bhist = [b \in Banks |-> IF b = "b1" THEN <<>> ELSE OperationalHistory]
    /\ dhist = [d \in Donors |-> AccountHistory]
    /\ pc = [r \in Requests |-> NoSession]
    /\ response = "none"

\* the dependency of request r loads the row of the bank or donor id
get_current_user(r, op, id) ==
    /\ pc[r] = NoSession
    /\ \/ /\ op = "upload_certification"
          /\ id \in Banks /\ banks[id].exists
          /\ pc' = [pc EXCEPT ![r] = [op |-> op, id |-> id, state |-> banks[id].state]]
       \/ /\ op \in {"request_counseling", "sign_consent"}
          /\ id \in Donors /\ get_current_donor(id) = "ok"
          /\ pc' = [pc EXCEPT ![r] = [op |-> op, id |-> id, state |-> donors[id].state]]
    /\ UNCHANGED <<autoflush, banks, templates, donors, bhist, dhist, response>>

\* body of upload_certification, after the upload has been awaited
upload_certification_of(r) ==
    /\ pc[r].op = "upload_certification"
    /\ LET b == pc[r].id
           rec == [banks[b] EXCEPT !.state = pc[r].state,
                                   !.certification_documents = IF @ = 0 THEN 1 ELSE @]
       IN  IF pc[r].state = "ACCOUNT_CREATED"
           THEN transition_bank_state(b, rec, "VERIFICATION_PENDING")
           ELSE /\ banks' = [banks EXCEPT ![b] =
                                [@ EXCEPT !.certification_documents = IF @ = 0 THEN 1 ELSE @]]
                /\ UNCHANGED bhist
    /\ Respond("ok")
    /\ pc' = [pc EXCEPT ![r] = NoSession]
    /\ UNCHANGED <<autoflush, templates, donors, dhist>>

\* body of request_counseling
request_counseling_of(r, method) ==
    /\ pc[r].op = "request_counseling"
    /\ LET d == pc[r].id
           rec == [donors[d] EXCEPT !.state = pc[r].state,
                                    !.counseling_sessions = @ + 1]
       IN  IF pc[r].state # "ACCOUNT_CREATED"
           THEN /\ Respond("bad_request")
                /\ UNCHANGED <<donors, dhist>>
           ELSE IF /\ banks[donors[d].bank_id].counseling_config.present
                   /\ method \notin banks[donors[d].bank_id].counseling_config.methods
           THEN /\ Respond("bad_request")
                /\ UNCHANGED <<donors, dhist>>
           ELSE /\ transition_donor_state(d, rec, "COUNSELING_REQUESTED", "donor")
                /\ Respond("ok")
    /\ pc' = [pc EXCEPT ![r] = NoSession]
    /\ UNCHANGED <<autoflush, banks, templates, bhist>>

\* body of sign_consent
sign_consent_of(r, t) ==
    /\ pc[r].op = "sign_consent"
    /\ LET d == pc[r].id
           rec == [donors[d] EXCEPT !.state = pc[r].state, !.consents[t] = "signed"]
           seen == IF autoflush THEN rec.consents ELSE donors[d].consents
           total_consents == CountConsents(seen, {"signed"})
       IN  IF pc[r].state \notin
                 {"CONSENT_PENDING", "COUNSELING_REQUESTED", "ACCOUNT_CREATED"}
           THEN /\ Respond("bad_request")
                /\ UNCHANGED <<donors, dhist>>
           ELSE IF t > templates[donors[d].bank_id]
           THEN /\ Respond("not_found")
                /\ UNCHANGED <<donors, dhist>>
           ELSE IF donors[d].consents[t] # "none"
           THEN /\ Respond("bad_request")
                /\ UNCHANGED <<donors, dhist>>
           ELSE /\ IF pc[r].state = "COUNSELING_REQUESTED" /\ total_consents = 0
                   THEN transition_donor_state(d, rec, "CONSENT_PENDING", "donor")
                   ELSE /\ donors' = [donors EXCEPT ![d] =
                                         [@ EXCEPT !.consents[t] = "signed"]]
                        /\ UNCHANGED dhist
                /\ Respond("ok")
    /\ pc' = [pc EXCEPT ![r] = NoSession]
    /\ UNCHANGED <<autoflush, banks, templates, bhist>>

NextRace ==
    \/ \E r \in Requests, b \in Banks : get_current_user(r, "upload_certification", b)
    \/ \E r \in Requests, d \in Donors :
          \E op \in {"request_counseling", "sign_consent"} : get_current_user(r, op, d)
    \/ \E r \in Requests : upload_certification_of(r)
    \/ \E r \in Requests, m \in CounselingMethod : request_counseling_of(r, m)
    \/ \E r \in Requests, t \in 1..MaxTemplates : sign_consent_of(r, t)

SpecRace == InitRace /\ [][NextRace]_vars

(* ---------------- the transition functions on their own ---------------- *)
\* SpecEngine: callers of transition_donor_state and transition_bank_state
\* asking for any new state, on a donor in any state of DonorState and on
\* banks that start registered (b1) or operational (b2).  The ValueError
\* raised for an illegal edge is the response "ValueError".
DonorHistoryUpTo(k) ==
    [i \in 1..(IF k > 2 THEN k - 2 ELSE 0) |->
        [from_state |-> DonorState[i + 1], to_state |-> DonorState[i + 2],
         changed_by_role |-> "donor"]]

InitEngine ==
    /\ autoflush \in BOOLEAN
    /\ banks = [b \in Banks |-> IF b = "b1" THEN RegisteredBank ELSE OperationalBank]
    /\ templates = [b \in Banks |-> IF b = "b1" THEN 0 ELSE MaxTemplates]
    /\ \E k \in 1..Len(DonorState) :
          /\ donors = [d \in Donors |->
                         [NoDonor EXCEPT !.exists = TRUE, !.state = DonorState[k],
                                         !.bank_id = "b2"]]
          /\ dhist = [d \in Donors |-> DonorHistoryUpTo(k)]
    /\ bhist = [b \in Banks |-> IF b = "b1" THEN <<>> ELSE OperationalHistory]
    /\ pc = Idle
    /\ response = "none"

call_transition_donor_state(d, new_state, changed_by_role) ==
    /\ IF can_transition_donor_state(donors[d].state, new_state)
       THEN /\ transition_donor_state(d, donors[d], new_state, changed_by_role)
            /\ Respond("ok")
       ELSE /\ Respond("ValueError")
            /\ UNCHANGED <<donors, dhist>>
    /\ UNCHANGED <<autoflush, banks, templates, bhist, pc>>

call_transition_bank_state(b, new_state) ==
    /\ IF can_transition_bank_state(banks[b].state, new_state)
       THEN /\ transition_bank_state(b, banks[b], new_state)
            /\ Respond("ok")
       ELSE /\ Respond("ValueError")
            /\ UNCHANGED <<banks, bhist>>
    /\ UNCHANGED <<autoflush, templates, donors, dhist, pc>>

NextEngine ==
    \/ \E d \in Donors, s \in Range(DonorState) :
          call_transition_donor_state(d, s, "donor")
    \/ \E b \in Banks, s \in Range(BankState) : call_transition_bank_state(b, s)

SpecEngine == InitEngine /\ [][NextEngine]_vars

(* ---------------- overlapping requests of a bank ---------------- *)
\* SpecBankRace: two donor-management requests of a bank in flight on a
\* database that holds a donor in CONSENT_PENDING or in TESTS_PENDING.  Each
\* request works in its own session: it loads the donor and runs its queries
\* on what has been committed so far (and, with autoflush, on its own pending
\* change), and what it writes is seen by the other request only after its
\* commit.  Here pc maps each request to the session of its handler.
NoBankSession == [op |-> "idle", id |-> NoId, state |-> NoId, template |-> 0,
                  status |-> NoId, quorum |-> FALSE]

\* consent tables of a donor waiting in CONSENT_PENDING: every template is
\* signed, fewer than 4 consents are verified
PendingConsents ==
    {cs \in [1..MaxTemplates -> {"signed", "verified"}] :
        CountConsents(cs, {"verified"}) < 4}

InitBankRace ==
    /\ autoflush \in BOOLEAN
    /\ banks = [b \in Banks |-> IF b = "b1" THEN RegisteredBank ELSE OperationalBank]
    /\ templates = [b \in Banks |-> IF b = "b1" THEN 0 ELSE MaxTemplates]
    /\ \/ /\ \E cs \in PendingConsents :
                donors = [d \in Donors |->
                            [NoDonor EXCEPT !.exists = TRUE, !.state = "CONSENT_PENDING",
                                            !.bank_id = "b2", !.hashed_password = TRUE,
                                            !.consents = cs, !.counseling_sessions = 1]]
          /\ dhist = [d \in Donors |-> DonorHistoryUpTo(6)]
       \/ /\ donors = [d \in Donors |->
                         [NoDonor EXCEPT !.exists = TRUE, !.state = "TESTS_PENDING",
                                         !.bank_id = "b2", !.hashed_password = TRUE,
                                         !.consents = [t \in 1..MaxTemplates |-> "verified"],
                                         !.counseling_sessions = 1, !.test_reports = 1]]
          /\ dhist = [d \in Donors |-> DonorHistoryUpTo(8)]
    /\ bhist = [b \in Banks |-> IF b = "b1" THEN <<>> ELSE OperationalHistory]
    /\ pc = [r \in Requests |-> NoBankSession]
    /\ response = "none"

\* verify_consent up to its two count queries: the consent and the donor are
\* loaded, the new status is pending in the session, the quorum is evaluated
verify_consent_count(r, b, d, t, status) ==
    /\ pc[r] = NoBankSession
    /\ IF get_subscribed_bank(b) # "ok"
       THEN /\ Respond(get_subscribed_bank(b))
            /\ UNCHANGED pc
       ELSE IF ~donors[d].exists \/ donors[d].consents[t] = "none"
       THEN /\ Respond("not_found")
            /\ UNCHANGED pc
       ELSE IF donors[d].bank_id # b
       THEN /\ Respond("forbidden")
            /\ UNCHANGED pc
       ELSE LET seen == IF autoflush
                        THEN [donors[d].consents EXCEPT ![t] = status]
                        ELSE donors[d].consents
                total_consents == CountConsents(seen, ConsentStatus)
                verified_consents == CountConsents(seen, {"verified"})
            IN  /\ pc' = [pc EXCEPT ![r] =
                            [op |-> "verify_consent", id |-> d,
                             state |-> donors[d].state, template |-> t,
                             status |-> status,
                             quorum |-> total_consents >= 4 /\ verified_consents >= 4]]
                /\ Respond("running")
    /\ UNCHANGED <<autoflush, banks, templates, donors, bhist, dhist>>

\* the rest of verify_consent: the transition, if the quorum was counted, and
\* the commit of the consent's new status
verify_consent_commit(r) ==
    /\ pc[r].op = "verify_consent"
    /\ LET d == pc[r].id
           rec == [donors[d] EXCEPT !.consents[pc[r].template] = pc[r].status]
       IN  IF pc[r].quorum /\ pc[r].state = "CONSENT_PENDING"
           THEN transition_donor_state(d, [rec EXCEPT !.state = pc[r].state],
                                       "CONSENT_VERIFIED", "bank")
           ELSE /\ donors' = [donors EXCEPT ![d] = rec]
                /\ UNCHANGED dhist
    /\ pc' = [pc EXCEPT ![r] = NoBankSession]
    /\ Respond("ok")
    /\ UNCHANGED <<autoflush, banks, templates, bhist>>

\* make_eligibility_decision up to the state check on the donor it loaded
make_eligibility_decision_load(r, b, d, status) ==
    /\ pc[r] = NoBankSession
    /\ IF get_subscribed_bank(b) # "ok"
       THEN /\ Respond(get_subscribed_bank(b))
            /\ UNCHANGED pc
       ELSE IF ~donors[d].exists \/ donors[d].bank_id # b
       THEN /\ Respond("not_found")
            /\ UNCHANGED pc
       ELSE IF donors[d].state # "TESTS_PENDING"
       THEN /\ Respond("bad_request")
            /\ UNCHANGED pc
       ELSE /\ pc' = [pc EXCEPT ![r] =
                        [NoBankSession EXCEPT !.op = "make_eligibility_decision",
                                              !.id = d, !.state = donors[d].state,
                                              !.status = status]]
            /\ Respond("running")
    /\ UNCHANGED <<autoflush, banks, templates, donors, bhist, dhist>>

\* the first transition of make_eligibility_decision, committed and refreshed
make_eligibility_decision_first(r) ==
    /\ pc[r].op = "make_eligibility_decision"
    /\ LET d == pc[r].id
       IN  transition_donor_state(d, [donors[d] EXCEPT !.state = pc[r].state,
                                                       !.eligibility_status = pc[r].status],
                                  "ELIGIBILITY_DECISION", "bank")
    /\ IF pc[r].status = "approved"
       THEN /\ pc' = [pc EXCEPT ![r] = [@ EXCEPT !.op = "make_eligibility_decision_next",
                                                 !.state = "ELIGIBILITY_DECISION"]]
            /\ Respond("running")
       ELSE /\ pc' = [pc EXCEPT ![r] = NoBankSession]
            /\ Respond("ok")
    /\ UNCHANGED <<autoflush, banks, templates, bhist>>

\* the second transition of an approving make_eligibility_decision
make_eligibility_decision_second(r) ==
    /\ pc[r].op = "make_eligibility_decision_next"
    /\ LET d == pc[r].id
       IN  transition_donor_state(d, [donors[d] EXCEPT !.state = pc[r].state],
                                  "DONOR_ONBOARDED", "bank")
    /\ pc' = [pc EXCEPT ![r] = NoBankSession]
    /\ Respond("ok")
    /\ UNCHANGED <<autoflush, banks, templates, bhist>>

NextBankRace ==
    \/ \E r \in Requests, b \in Banks, d \in Donors :
          \E t \in 1..MaxTemplates, s \in VerifyStatuses :
             verify_consent_count(r, b, d, t, s)
    \/ \E r \in Requests : verify_consent_commit(r)
    \/ \E r \in Requests, b \in Banks, d \in Donors :
          \E s \in {"approved", "rejected"} : make_eligibility_decision_load(r, b, d, s)
    \/ \E r \in Requests : make_eligibility_decision_first(r)
    \/ \E r \in Requests : make_eligibility_decision_second(r)

SpecBankRace == InitBankRace /\ [][NextBankRace]_vars

(* ---------------- requests that keep coming ---------------- *)
\* SpecBankLive: the onboarding of a bank of Tenants from an empty database,
\* where every request of the bank and of every admin that can still change
\* something is eventually made again.
NextBankLive ==
    \/ \E b \in Tenants : register_bank(b)
    \/ \E b \in Tenants : upload_certification(b)
    \/ \E b \in Tenants, m \in ConfigChoices : update_counseling_config(b, m)
    \/ \E b \in Tenants : create_subscription(b)
    \/ create_subscription_next
    \/ \E a \in Admins, b \in Tenants, v \in VerifiedByVals : verify_bank(a, b, v)
    \/ \E a \in Admins, b \in Tenants : update_bank_subscription(a, b)

FairBankLive ==
    /\ SF_vars(create_subscription_next)
    /\ \A b \in Tenants :
          /\ SF_vars(register_bank(b))
          /\ SF_vars(upload_certification(b))
          /\ SF_vars(create_subscription(b))
          /\ \A m \in ConfigChoices : SF_vars(update_counseling_config(b, m))
          /\ \A a \in Admins :
                /\ SF_vars(update_bank_subscription(a, b))
                /\ \A v \in VerifiedByVals : SF_vars(verify_bank(a, b, v))

SpecBankLive == Init /\ [][NextBankLive]_vars /\ FairBankLive

\* SpecConsentLive: a donor of the operational bank b2 waits in
\* COUNSELING_REQUESTED; consents it signed while in ACCOUNT_CREATED may
\* already be on file, signed, verified or rejected.  The bank's templates
\* stay as they are, and every sign_consent and verify_consent request that
\* can still change something is eventually made again.
InitConsentLive ==
    /\ autoflush \in BOOLEAN
    /\ banks = [b \in Banks |-> IF b = "b1" THEN RegisteredBank ELSE OperationalBank]
    /\ templates = [b \in Banks |-> IF b = "b1" THEN 0 ELSE MaxTemplates]
    /\ \E cs \in [1..MaxTemplates -> {"none", "signed", "verified", "rejected"}] :
          donors = [d \in Donors |->
                      [NoDonor EXCEPT !.exists = TRUE, !.state = "COUNSELING_REQUESTED",
                                      !.bank_id = "b2", !.hashed_password = TRUE,
                                      !.consents = cs, !.counseling_sessions = 1]]
    /\ bhist = [b \in Banks |-> IF b = "b1" THEN <<>> ELSE OperationalHistory]
    /\ dhist = [d \in Donors |-> DonorHistoryUpTo(5)]
    /\ pc = Idle
    /\ response = "none"

NextConsentLive ==
    \/ \E d \in Donors, t \in 1..MaxTemplates : sign_consent(d, t)
    \/ \E d \in Donors, t \in 1..MaxTemplates, s \in VerifyStatuses :
          verify_consent("b2", d, t, s)

FairConsentLive ==
    \A d \in Donors, t \in 1..MaxTemplates :
        /\ SF_vars(sign_consent(d, t))
        /\ \A s \in VerifyStatuses : SF_vars(verify_consent("b2", d, t, s))

SpecConsentLive == InitConsentLive /\ [][NextConsentLive]_vars /\ FairConsentLive

(* ======================= properties ======================= *)
ErrorCodes == {"bad_request", "unauthorized", "forbidden", "not_found", "unprocessable"}

\* b is the immediate successor of a in the sequence chain
NextInChain(chain, a, b) ==
    \E i \in 1..(Len(chain) - 1) : chain[i] = a /\ chain[i + 1] = b

DonorChain == <<"VISITOR", "BANK_SELECTED", "LEAD_CREATED", "ACCOUNT_CREATED",
                "COUNSELING_REQUESTED", "CONSENT_PENDING", "CONSENT_VERIFIED",
                "TESTS_PENDING", "ELIGIBILITY_DECISION", "DONOR_ONBOARDED">>

BankChain == <<"ACCOUNT_CREATED", "VERIFICATION_PENDING", "VERIFIED",
               "SUBSCRIPTION_PENDING", "SUBSCRIBED_ONBOARDED", "OPERATIONAL">>

\* the rows of history h form a chain
Chained(h) == \A i \in 1..(Len(h) - 1) : h[i].to_state = h[i + 1].from_state

\* history h2 is h1 followed by exactly one row from state a to state b
OneRowAdded(h1, h2, a, b) ==
    /\ Len(h2) = Len(h1) + 1
    /\ SubSeq(h2, 1, Len(h1)) = h1
    /\ h2[Len(h2)].from_state = a
    /\ h2[Len(h2)].to_state = b

\* C1: every commit that changes the persisted state of an existing donor
\* moves it to the immediate successor of its state in the donor chain (no
\* skipped stage, no move backward).
C1_DonorStateStepsForward ==
    [][\A d \in Donors :
         (donors[d].exists /\ donors'[d].state # donors[d].state)
            => NextInChain(DonorChain, donors[d].state, donors'[d].state)]_vars

\* a donor has gone through the whole chain, one commit per stage
C1_Witness ==
    \E d \in Donors : donors[d].state = "DONOR_ONBOARDED" /\ Len(dhist[d]) = 8

\* C2: every commit that changes the persisted state of an existing bank
\* moves it to the immediate successor of its state in the bank chain, for
\* the bank's own requests and for the admin requests.
C2_BankStateStepsForward ==
    [][\A b \in Banks :
         (banks[b].exists /\ banks'[b].state # banks[b].state)
            => NextInChain(BankChain, banks[b].state, banks'[b].state)]_vars

\* C3: a commit changes the state of an existing bank or donor exactly when
\* it appends one history row for it, whose from_state is the old state and
\* whose to_state is the new one; no other commit adds a history row.
C3_StateChangeIffHistoryRow ==
    [][/\ \A b \in Banks :
            IF banks[b].exists /\ banks'[b].state # banks[b].state
            THEN OneRowAdded(bhist[b], bhist'[b], banks[b].state, banks'[b].state)
            ELSE bhist'[b] = bhist[b]
       /\ \A d \in Donors :
            IF donors[d].exists /\ donors'[d].state # donors[d].state
            THEN OneRowAdded(dhist[d], dhist'[d], donors[d].state, donors'[d].state)
            ELSE dhist'[d] = dhist[d]]_vars

\* C4: the history rows of every donor, in creation order, form a chain:
\* each row's to_state is the next row's from_state.
C4_DonorHistoryChained == \A d \in Donors : Chained(dhist[d])

\* a donor with several history rows
C4_Witness == \E d \in Donors : Len(dhist[d]) >= 3

\* C5: the history rows of every bank, in creation order, form a chain.
C5_BankHistoryChained == \A b \in Banks : Chained(bhist[b])

\* C6: the first history row of an entity starts from null or from the
\* initial state of its kind (VISITOR for a donor, ACCOUNT_CREATED for a bank).
C6_FirstRowFromInitialState ==
    /\ \A b \in Banks :
          bhist[b] # <<>> => bhist[b][1].from_state \in {NoId, "ACCOUNT_CREATED"}
    /\ \A d \in Donors :
          dhist[d] # <<>> => dhist[d][1].from_state \in {NoId, "VISITOR"}

\* C7: a request answered with an error leaves the state and the history
\* rows of every bank and every donor as they were before the request.
C7_ErrorLeavesStateAndHistory ==
    [][response' \in ErrorCodes =>
         /\ \A b \in Banks : banks'[b].state = banks[b].state
         /\ \A d \in Donors : donors'[d].state = donors[d].state
         /\ bhist' = bhist
         /\ dhist' = dhist]_vars

\* a request has just been rejected while a bank is operational and its
\* donor is half way through the workflow
C7_Witness ==
    /\ response \in ErrorCodes
    /\ \E d \in Donors :
          /\ donors[d].state = "CONSENT_PENDING"
          /\ banks[donors[d].bank_id].state = "OPERATIONAL"
          /\ Len(bhist[donors[d].bank_id]) = 4

\* the consent rows a donor has, and those among them in status verified
TotalConsents(rec) == CountConsents(rec.consents, ConsentStatus)

VerifiedConsents(rec) == CountConsents(rec.consents, {"verified"})

\* C8: a donor's state changes from CONSENT_PENDING to CONSENT_VERIFIED only
\* in a verify_consent step at whose end the donor has at least 4 consent
\* rows in total and at least 4 of them in status verified.
C8_VerifiedOnlyByQuorum ==
    [][\A d \in Donors :
         (/\ donors[d].state = "CONSENT_PENDING"
          /\ donors'[d].state = "CONSENT_VERIFIED") =>
             /\ \E b \in Banks, t \in 1..MaxTemplates, s \in VerifyStatuses :
                   verify_consent(b, d, t, s)
             /\ TotalConsents(donors'[d]) >= 4
             /\ VerifiedConsents(donors'[d]) >= 4]_vars

\* C9: a verify_consent call on a donor in CONSENT_PENDING that leaves the
\* donor with at least 4 consents in total and at least 4 verified moves the
\* donor to CONSENT_VERIFIED and appends the history row in that same call.
C9_QuorumAdvancesInSameCall ==
    [][\A d \in Donors :
         (/\ donors[d].state = "CONSENT_PENDING"
          /\ \E b \in Banks, t \in 1..MaxTemplates, s \in VerifyStatuses :
                verify_consent(b, d, t, s)
          /\ response' = "ok"
          /\ TotalConsents(donors'[d]) >= 4
          /\ VerifiedConsents(donors'[d]) >= 4) =>
             /\ donors'[d].state = "CONSENT_VERIFIED"
             /\ OneRowAdded(dhist[d], dhist'[d],
                            "CONSENT_PENDING", "CONSENT_VERIFIED")]_vars

\* C10: when a subscribed bank calls verify_consent, upload_test_report or
\* make_eligibility_decision for a donor of another bank, the call is
\* answered as unauthorized, not as not-found, and the donor's record
\* (state, consents, eligibility, test reports) and history are unchanged.
C10_ForeignDonorUnauthorized ==
    [][\A b \in Banks, d \in Donors :
         (/\ get_subscribed_bank(b) = "ok"
          /\ donors[d].exists
          /\ donors[d].bank_id # b
          /\ \/ \E t \in 1..MaxTemplates, s \in VerifyStatuses :
                   /\ donors[d].consents[t] # "none"
                   /\ verify_consent(b, d, t, s)
             \/ upload_test_report(b, d)
             \/ \E s \in EligibilityStatus :
                   make_eligibility_decision(b, d, s)) =>
             /\ response' \in {"unauthorized", "forbidden"}
             /\ donors' = donors
             /\ dhist' = dhist]_vars

\* C11: a commit adds a donor row only if the bank named by the new row
\* existed and was verified and subscribed when the request was made; a
\* create_lead naming any other bank adds no donor row.
C11_LeadOnlyForActiveBank ==
    [][\A d \in Donors :
         (~donors[d].exists /\ donors'[d].exists) =>
             /\ donors'[d].bank_id \in Banks
             /\ banks[donors'[d].bank_id].exists
             /\ banks[donors'[d].bank_id].is_verified
             /\ banks[donors'[d].bank_id].is_subscribed]_vars

\* create_lead has just committed a new donor row for a subscribed bank
C11_Witness ==
    /\ pc.op = "create_lead"
    /\ donors[pc.donor].exists
    /\ donors[pc.donor].bank_id = pc.bank
    /\ banks[pc.bank].is_verified /\ banks[pc.bank].is_subscribed

\* C12: a sign_consent by an authenticated donor for a template that already
\* has a consent row of that donor, whatever the row's status, is rejected
\* and changes neither the donor's consent rows, nor its state, nor its
\* history.
C12_DuplicateSignRejected ==
    [][\A d \in Donors, t \in 1..MaxTemplates :
         (/\ get_current_donor(d) = "ok"
          /\ donors[d].consents[t] # "none"
          /\ sign_consent(d, t)) =>
             /\ response' \in ErrorCodes
             /\ donors' = donors
             /\ dhist' = dhist]_vars

\* a request has been rejected while the donor is signing and one of its
\* consent rows has already been verified
C12_Witness ==
    /\ response = "bad_request"
    /\ \E d \in Donors :
          /\ donors[d].state = "CONSENT_PENDING"
          /\ \E t \in 1..MaxTemplates : donors[d].consents[t] = "verified"
          /\ \E t \in 1..MaxTemplates : donors[d].consents[t] = "rejected"
          /\ \E t \in 1..MaxTemplates : donors[d].consents[t] = "signed"

\* the rows of history h name no edge twice
NoEdgeTwice(h) ==
    \A i, j \in 1..Len(h) :
        (h[i].from_state = h[j].from_state /\ h[i].to_state = h[j].to_state) => i = j

\* C13: when two requests on the same entity both read the same persisted
\* state before either commits, at most one of them commits the state
\* change with its history row; so no entity's history contains the same
\* (from_state, to_state) edge twice.
C13_NoRepeatedEdge ==
    /\ \A b \in Banks : NoEdgeTwice(bhist[b])
    /\ \A d \in Donors : NoEdgeTwice(dhist[d])

\* an admin allowed to verify banks and manage subscriptions
BankAdmins == {a \in Admins : require_role(a, {"super_admin", "support"}) = "ok"}

\* C14: verify_bank applied by an authorised admin to an existing bank that
\* is not yet verified sets is_verified and verified_by, moves the state to
\* VERIFIED when it is exactly VERIFICATION_PENDING, and leaves the state
\* unchanged when it is any other state.
C14_VerifyAdvancesOnlyFromPending ==
    [][\A a \in BankAdmins, b \in Banks, v \in VerifiedByVals :
         (/\ banks[b].exists
          /\ ~banks[b].is_verified
          /\ verify_bank(a, b, v)) =>
             /\ banks'[b].is_verified
             /\ banks'[b].verified_by = v
             /\ banks'[b].state = IF banks[b].state = "VERIFICATION_PENDING"
                                  THEN "VERIFIED" ELSE banks[b].state]_vars

\* a bank has been verified while in ACCOUNT_CREATED: the flag is set and
\* the state has not advanced
C14_Witness ==
    \E b \in Banks :
        /\ banks[b].is_verified
        /\ banks[b].verified_by \in VerifiedByVals
        /\ banks[b].state = "ACCOUNT_CREATED"

\* C15 as stated: verify_bank by an authorised admin succeeds for every
\* existing bank, whatever its is_verified value and state, and leaves
\* is_verified set and verified_by equal to the value of the call.
C15_VerifyAlwaysSucceeds ==
    [][\A a \in BankAdmins, b \in Banks, v \in VerifiedByVals :
         (banks[b].exists /\ verify_bank(a, b, v)) =>
             /\ response' = "ok"
             /\ banks'[b].is_verified
             /\ banks'[b].verified_by = v]_vars

\* C15 (amended): verify_bank by an authorised admin succeeds for every
\* existing bank that is not yet verified, whatever its state, and leaves
\* is_verified set and verified_by equal to the value of the call; for a
\* bank that is already verified it is rejected and the bank is unchanged.
C15_VerifyOnceWhateverState ==
    [][\A a \in BankAdmins, b \in Banks, v \in VerifiedByVals :
         (banks[b].exists /\ verify_bank(a, b, v)) =>
             IF banks[b].is_verified
             THEN response' = "bad_request" /\ banks' = banks
             ELSE /\ response' = "ok"
                  /\ banks'[b].is_verified
                  /\ banks'[b].verified_by = v]_vars

\* a verified bank in VERIFIED has just had a request rejected
C15_Witness ==
    /\ response = "bad_request"
    /\ \E b \in Banks :
          /\ banks[b].is_verified
          /\ banks[b].state = "VERIFIED"
          /\ ~banks[b].is_subscribed

\* the last three rows of history h are the three subscription edges, in order
EndsWithSubscriptionRows(h) ==
    /\ Len(h) >= 3
    /\ h[Len(h) - 2].from_state = "VERIFIED"
    /\ h[Len(h) - 2].to_state = "SUBSCRIPTION_PENDING"
    /\ h[Len(h) - 1].from_state = "SUBSCRIPTION_PENDING"
    /\ h[Len(h) - 1].to_state = "SUBSCRIBED_ONBOARDED"
    /\ h[Len(h)].from_state = "SUBSCRIBED_ONBOARDED"
    /\ h[Len(h)].to_state = "OPERATIONAL"

\* C16: create_subscription is accepted only for a bank with is_verified set
\* and state VERIFIED; a rejected call leaves the bank and its history
\* unchanged; an accepted call sets is_subscribed and appends one row per
\* commit, VERIFIED to SUBSCRIPTION_PENDING, then SUBSCRIPTION_PENDING to
\* SUBSCRIBED_ONBOARDED, then SUBSCRIBED_ONBOARDED to OPERATIONAL, and
\* returns with the bank in OPERATIONAL.
C16_SubscriptionThreeSteps ==
    [][/\ \A b \in Banks :
            create_subscription(b) =>
                IF banks[b].exists /\ banks[b].is_verified /\ banks[b].state = "VERIFIED"
                THEN /\ response' = "running"
                     /\ banks'[b].is_subscribed
                     /\ banks'[b].state = "SUBSCRIPTION_PENDING"
                     /\ OneRowAdded(bhist[b], bhist'[b],
                                    "VERIFIED", "SUBSCRIPTION_PENDING")
                ELSE /\ response' \in ErrorCodes
                     /\ banks' = banks
                     /\ bhist' = bhist
       /\ pc.op = "create_subscription" =>
            LET b == pc.bank
            IN  IF response' = "running"
                THEN /\ banks'[b].state = "SUBSCRIBED_ONBOARDED"
                     /\ OneRowAdded(bhist[b], bhist'[b],
                                    "SUBSCRIPTION_PENDING", "SUBSCRIBED_ONBOARDED")
                ELSE /\ response' = "ok"
                     /\ banks'[b].state = "OPERATIONAL"
                     /\ banks'[b].is_subscribed
                     /\ OneRowAdded(bhist[b], bhist'[b],
                                    "SUBSCRIBED_ONBOARDED", "OPERATIONAL")
                     /\ EndsWithSubscriptionRows(bhist'[b])]_vars

\* create_subscription has returned: the bank is operational and subscribed
\* and its history ends with the three subscription rows
C16_Witness ==
    /\ response = "ok"
    /\ pc = Idle
    /\ \E b \in Banks :
          /\ banks[b].state = "OPERATIONAL"
          /\ banks[b].is_subscribed
          /\ EndsWithSubscriptionRows(bhist[b])

\* C17: after every commit a donor in DONOR_ONBOARDED has eligibility_status
\* approved, and a donor in ELIGIBILITY_DECISION whose recorded decision is
\* rejected keeps that state and that decision.
C17_OnboardedOnlyIfApproved ==
    [][\A d \in Donors :
         /\ donors'[d].state = "DONOR_ONBOARDED" =>
                donors'[d].eligibility_status = "approved"
         /\ (/\ donors[d].state = "ELIGIBILITY_DECISION"
             /\ donors[d].eligibility_status = "rejected") =>
                /\ donors'[d].state = "ELIGIBILITY_DECISION"
                /\ donors'[d].eligibility_status = "rejected"]_vars

\* a donor has been rejected and a later request about it has been refused
C17_Witness ==
    /\ response = "bad_request"
    /\ \E d \in Donors :
          /\ donors[d].state = "ELIGIBILITY_DECISION"
          /\ donors[d].eligibility_status = "rejected"
          /\ dhist[d][Len(dhist[d])].to_state = "ELIGIBILITY_DECISION"

\* C18: a call of transition_donor_state or transition_bank_state asking for
\* a new state that is not the immediate successor of the entity's state
\* (the state itself, an earlier state, a later state that skips a stage) is
\* answered with the invalid-transition error, changes no state and appends
\* no history row.
C18_IllegalEdgeRejected ==
    [][/\ \A d \in Donors, s \in Range(DonorState) :
            (/\ ~NextInChain(DonorChain, donors[d].state, s)
             /\ call_transition_donor_state(d, s, "donor")) =>
                /\ response' = "ValueError"
                /\ donors' = donors
                /\ dhist' = dhist
       /\ \A b \in Banks, s \in Range(BankState) :
            (/\ ~NextInChain(BankChain, banks[b].state, s)
             /\ call_transition_bank_state(b, s)) =>
                /\ response' = "ValueError"
                /\ banks' = banks
                /\ bhist' = bhist]_vars

\* a call has been refused on a donor that is still a VISITOR and a bank
\* that has advanced one stage
C18_Witness ==
    /\ response = "ValueError"
    /\ \E d \in Donors : donors[d].state = "VISITOR" /\ dhist[d] = <<>>
    /\ \E b \in Banks : banks[b].state = "VERIFICATION_PENDING" /\ Len(bhist[b]) = 1

\* C19: verify_bank and update_bank_subscription called by an admin whose
\* role is neither super_admin nor support are rejected and leave every bank
\* and bank history unchanged; called by any admin, they change no donor and
\* no donor history.
C19_AdminRolesAndNoDonorChange ==
    [][\A a \in Admins, b \in Banks :
         \/ /\ donors' = donors
            /\ dhist' = dhist
            /\ \/ AdminRole[a] \in {"super_admin", "support"}
               \/ /\ response' = "forbidden"
                  /\ banks' = banks
                  /\ bhist' = bhist
         \/ ~ \/ \E v \in VerifiedByVals : verify_bank(a, b, v)
              \/ update_bank_subscription(a, b)]_vars

\* an admin request has been refused for its role: the bank is verified and
\* subscribed, so the refusal does not come from the bank's own dependencies,
\* and a donor is under way
C19_Witness ==
    /\ response = "forbidden"
    /\ \A b \in Tenants : banks[b].is_verified /\ banks[b].is_subscribed
    /\ \E d \in Donors : donors[d].state = "ACCOUNT_CREATED"

\* C20: a commit of create_account, request_counseling or sign_consent
\* changes the state of donor D only when the request is authenticated as D,
\* that is, when it carries a donor token of D (get_current_donor).
C20_SelfServiceNeedsOwnToken ==
    [][\A d \in Donors :
         (/\ donors[d].exists
          /\ donors'[d].state # donors[d].state
          /\ \/ create_account(d)
             \/ \E m \in CounselingMethod : request_counseling(d, m)
             \/ \E t \in 1..MaxTemplates : sign_consent(d, t)) =>
             get_current_donor(d) = "ok"]_vars

\* C21: when a handler that commits several times fails after one of its
\* commits, the persisted state, flags and history are those from before the
\* request: the bank of create_subscription is in VERIFIED, not subscribed
\* by this request, with no subscription row; the donor of create_lead does
\* not exist; the donor of make_eligibility_decision is in TESTS_PENDING
\* with no recorded decision and no ELIGIBILITY_DECISION row.
C21_FailureLeavesNoPartialProgress ==
    [][(response' = "server_error") =>
         /\ pc.op = "create_subscription" =>
               /\ banks'[pc.bank].state = "VERIFIED"
               /\ \A i \in 1..Len(bhist'[pc.bank]) :
                     bhist'[pc.bank][i].from_state # "VERIFIED"
         /\ pc.op = "create_lead" =>
               /\ ~donors'[pc.donor].exists
               /\ dhist'[pc.donor] = <<>>
         /\ pc.op = "make_eligibility_decision" =>
               /\ donors'[pc.donor].state = "TESTS_PENDING"
               /\ donors'[pc.donor].eligibility_status = "pending"
               /\ \A i \in 1..Len(dhist'[pc.donor]) :
                     dhist'[pc.donor][i].to_state # "ELIGIBILITY_DECISION"]_vars

\* history h1 is a prefix of history h2
IsPrefix(h1, h2) == Len(h1) <= Len(h2) /\ SubSeq(h2, 1, Len(h1)) = h1

\* C22: no request of the primary or the admin API changes or removes an
\* existing history row: after every commit each entity's history has its
\* history before the commit as a prefix.
C22_HistoryAppendOnly ==
    [][/\ \A b \in Banks : IsPrefix(bhist[b], bhist'[b])
       /\ \A d \in Donors : IsPrefix(dhist[d], dhist'[d])]_vars

\* a bank and a donor have both accumulated several rows
C22_Witness ==
    /\ \E b \in Banks : Len(bhist[b]) >= 4
    /\ \E d \in Donors : Len(dhist[d]) >= 4

\* C23: every history row from CONSENT_PENDING to CONSENT_VERIFIED, written
\* when the quorum advances the donor, records the actor role system, not
\* the bank whose verify_consent call triggered it.
C23_QuorumRowBySystem ==
    \A d \in Donors : \A i \in 1..Len(dhist[d]) :
        (/\ dhist[d][i].from_state = "CONSENT_PENDING"
         /\ dhist[d][i].to_state = "CONSENT_VERIFIED") =>
            dhist[d][i].changed_by_role = "system"

\* C24: a donor-management request (reading donors, update_counseling_config,
\* verify_consent, upload_test_report, make_eligibility_decision) of an
\* existing bank that is not both verified and subscribed is answered as
\* forbidden and changes no bank, template, donor or history row.
C24_DonorManagementNeedsSubscription ==
    [][\A b \in Banks :
         (/\ banks[b].exists
          /\ ~(banks[b].is_verified /\ banks[b].is_subscribed)
          /\ \/ get_my_donors(b)
             \/ \E m \in ConfigChoices : update_counseling_config(b, m)
             \/ \E d \in Donors :
                   \/ \E t \in 1..MaxTemplates, s \in VerifyStatuses :
                         verify_consent(b, d, t, s)
                   \/ upload_test_report(b, d)
                   \/ \E s \in EligibilityStatus :
                         make_eligibility_decision(b, d, s)) =>
             /\ response' = "forbidden"
             /\ UNCHANGED <<banks, templates, donors, bhist, dhist>>]_vars

\* a request has been answered as forbidden while the bank is verified but
\* not subscribed
C24_Witness ==
    /\ response = "forbidden"
    /\ \E b \in Banks :
          /\ banks[b].exists
          /\ banks[b].is_verified
          /\ ~banks[b].is_subscribed
          /\ banks[b].state = "VERIFIED"

\* the bank of donor d lets the donor ask for counseling by this method: it has
\* no counseling configuration, or one listing no methods, or one listing the
\* method
MethodAllowed(d, method) ==
    LET config == banks[donors[d].bank_id].counseling_config
    IN  \/ ~config.present
        \/ config.methods = {}
        \/ method \in config.methods

\* C25: request_counseling of an authenticated donor succeeds exactly when the
\* donor is in ACCOUNT_CREATED and the bank allows the method; it then adds one
\* counseling session and moves the donor to COUNSELING_REQUESTED with one
\* history row. Otherwise it is rejected, and neither the donor nor the
\* history changes.
C25_CounselingByConfiguredMethod ==
    [][\A d \in Donors :
         donors[d].exists =>
             \A method \in CounselingMethod :
                 \/ IF donors[d].state = "ACCOUNT_CREATED" /\ MethodAllowed(d, method)
                    THEN /\ response' = "ok"
                         /\ donors'[d].state = "COUNSELING_REQUESTED"
                         /\ donors'[d].counseling_sessions =
                                donors[d].counseling_sessions + 1
                         /\ OneRowAdded(dhist[d], dhist'[d],
                                        "ACCOUNT_CREATED", "COUNSELING_REQUESTED")
                    ELSE /\ response' \in ErrorCodes
                         /\ UNCHANGED <<donors, dhist>>
                 \/ ~request_counseling(d, method)]_vars

\* a donor has been moved to COUNSELING_REQUESTED by a request for a method the
\* bank's configuration lists
C25_Witness ==
    \E d \in Donors :
        /\ donors[d].state = "COUNSELING_REQUESTED"
        /\ donors[d].counseling_sessions = 1
        /\ response = "ok"
        /\ banks[donors[d].bank_id].counseling_config.present
        /\ banks[donors[d].bank_id].counseling_config.methods # {}
        /\ dhist[d][Len(dhist[d])].to_state = "COUNSELING_REQUESTED"

C27_TestReportByState ==
    [][\A d \in Donors :
         \/ ~donors[d].exists
         \/ get_subscribed_bank(donors[d].bank_id) # "ok"
         \/ ~upload_test_report(donors[d].bank_id, d)
         \/ IF donors[d].state = "CONSENT_VERIFIED"
            THEN /\ response' = "ok"
                 /\ donors'[d].test_reports = donors[d].test_reports + 1
                 /\ donors'[d].state = "TESTS_PENDING"
                 /\ OneRowAdded(dhist[d], dhist'[d], "CONSENT_VERIFIED", "TESTS_PENDING")
            ELSE IF donors[d].state = "TESTS_PENDING"
            THEN /\ response' = "ok"
                 /\ donors'[d].test_reports = donors[d].test_reports + 1
                 /\ donors'[d].state = "TESTS_PENDING"
                 /\ dhist'[d] = dhist[d]
            ELSE /\ response' \in ErrorCodes
                 /\ UNCHANGED <<donors, dhist>>]_vars

\* a second report has been stored for a donor whose first report moved it to
\* TESTS_PENDING
C27_Witness ==
    \E d \in Donors :
        /\ donors[d].state = "TESTS_PENDING"
        /\ donors[d].test_reports = 2
        /\ response = "ok"
        /\ dhist[d][Len(dhist[d])].to_state = "TESTS_PENDING"

C29_VerifiedHasCertification ==
    \A b \in Banks :
        (\/ banks[b].is_verified
         \/ banks[b].state \in {"VERIFIED", "SUBSCRIPTION_PENDING",
                                "SUBSCRIBED_ONBOARDED", "OPERATIONAL"}) =>
            banks[b].certification_documents > 0

\* position of state s in the enumeration states
Position(states, s) == CHOOSE i \in 1..Len(states) : states[i] = s

\* states that can_transition_donor_state / can_transition_bank_state accept
\* after state a
DonorSuccessors(a) == {b \in Range(DonorState) : can_transition_donor_state(a, b)}
BankSuccessors(a) == {b \in Range(BankState) : can_transition_bank_state(a, b)}

\* C30: can_transition_donor_state and can_transition_bank_state accept a pair
\* exactly when the second state is the immediate successor of the first in
\* the chain, so a transition call succeeds exactly then; every state has at
\* most one successor, DONOR_ONBOARDED, OPERATIONAL and UNREGISTERED have none,
\* and every accepted edge leads to a later state of the enumeration (no state
\* follows itself and the edges form no cycle).
C30_EdgeIsImmediateSuccessor ==
    [][/\ \A a \in Range(DonorState) :
            /\ DonorSuccessors(a) = {b \in Range(DonorState) : NextInChain(DonorChain, a, b)}
            /\ Cardinality(DonorSuccessors(a)) <= 1
            /\ \A b \in DonorSuccessors(a) : Position(DonorState, b) > Position(DonorState, a)
       /\ \A a \in Range(BankState) :
            /\ BankSuccessors(a) = {b \in Range(BankState) : NextInChain(BankChain, a, b)}
            /\ Cardinality(BankSuccessors(a)) <= 1
            /\ \A b \in BankSuccessors(a) : Position(BankState, b) > Position(BankState, a)
       /\ DonorSuccessors("DONOR_ONBOARDED") = {}
       /\ BankSuccessors("OPERATIONAL") = {}
       /\ BankSuccessors("UNREGISTERED") = {}
       /\ \A d \in Donors, s \in Range(DonorState) :
            call_transition_donor_state(d, s, "donor") =>
                (response' = "ok" <=> NextInChain(DonorChain, donors[d].state, s))
       /\ \A b \in Banks, s \in Range(BankState) :
            call_transition_bank_state(b, s) =>
                (response' = "ok" <=> NextInChain(BankChain, banks[b].state, s))]_vars

\* calls have walked a donor and a bank along the whole of their chains
C30_Witness ==
    /\ response = "ok"
    /\ \E d \in Donors : donors[d].state = "DONOR_ONBOARDED"
    /\ banks["b1"].state = "OPERATIONAL"
    /\ Len(bhist["b1"]) = Len(BankChain) - 1

\* C31: SUBSCRIPTION_PENDING and SUBSCRIBED_ONBOARDED are transient: whenever
\* no request is under way, no bank is in either of them, whichever
\* subscription operation was used.
C31_SubscriptionStatesTransient ==
    pc = Idle =>
        \A b \in Banks :
            banks[b].state \notin {"SUBSCRIPTION_PENDING", "SUBSCRIBED_ONBOARDED"}

\* C32: sign_consent of a donor whose state is neither COUNSELING_REQUESTED
\* nor CONSENT_PENDING is rejected and creates no consent row.
C32_SignOnlyAfterCounseling ==
    [][\A d \in Donors :
         \/ donors[d].state \in {"COUNSELING_REQUESTED", "CONSENT_PENDING"}
         \/ /\ response' \in ErrorCodes
            /\ donors'[d].consents = donors[d].consents
         \/ \A t \in 1..MaxTemplates : ~sign_consent(d, t)]_vars

\* C33: sign_consent of a donor whose bank does not have exactly 4 active
\* consent templates is rejected: it creates no consent row and changes no
\* donor and no history.
C33_SignNeedsFourTemplates ==
    [][\A d \in Donors :
         \/ ~donors[d].exists
         \/ templates[donors[d].bank_id] = 4
         \/ /\ response' \in ErrorCodes
            /\ UNCHANGED <<donors, dhist>>
         \/ \A t \in 1..MaxTemplates : ~sign_consent(d, t)]_vars

\* C34: a bank whose state is VERIFIED or later is marked verified, and a bank
\* whose state is SUBSCRIBED_ONBOARDED or OPERATIONAL is marked subscribed.
C34_StateImpliesFlags ==
    \A b \in Banks :
        /\ banks[b].state \in {"VERIFIED", "SUBSCRIPTION_PENDING",
                               "SUBSCRIBED_ONBOARDED", "OPERATIONAL"} =>
               banks[b].is_verified
        /\ banks[b].state \in {"SUBSCRIBED_ONBOARDED", "OPERATIONAL"} =>
               banks[b].is_subscribed

\* a bank subscribed by an admin is at rest in SUBSCRIBED_ONBOARDED with both
\* flags set
C34_Witness ==
    \E b \in Banks :
        /\ pc = Idle
        /\ banks[b].state = "SUBSCRIBED_ONBOARDED"
        /\ banks[b].is_verified
        /\ banks[b].is_subscribed

\* C35: a bank that is marked subscribed is in SUBSCRIPTION_PENDING,
\* SUBSCRIBED_ONBOARDED or OPERATIONAL.
C35_SubscribedImpliesState ==
    \A b \in Banks :
        banks[b].is_subscribed =>
            banks[b].state \in {"SUBSCRIPTION_PENDING", "SUBSCRIBED_ONBOARDED",
                                "OPERATIONAL"}

\* C36: a donor whose state is CONSENT_VERIFIED or later has at least 4 consent
\* rows in status verified.
C36_QuorumKept ==
    \A d \in Donors :
        donors[d].state \in {"CONSENT_VERIFIED", "TESTS_PENDING",
                             "ELIGIBILITY_DECISION", "DONOR_ONBOARDED"} =>
            VerifiedConsents(donors[d]) >= 4

\* C37: when overlapping verify_consent requests have all completed, a donor
\* with at least 4 verified consents is not left in CONSENT_PENDING.
C37_QuorumSurvivesInterleaving ==
    (\A r \in Requests : pc[r] = NoBankSession) =>
        \A d \in Donors :
            ~(/\ donors[d].state = "CONSENT_PENDING"
              /\ VerifiedConsents(donors[d]) >= 4)

\* C38: overlapping make_eligibility_decision requests never produce a donor in
\* DONOR_ONBOARDED whose eligibility_status is not approved, and never move a
\* donor back from DONOR_ONBOARDED to ELIGIBILITY_DECISION.
C38_OneDecisionWins ==
    [][\A d \in Donors :
         /\ donors'[d].state = "DONOR_ONBOARDED" =>
                donors'[d].eligibility_status = "approved"
         /\ ~(/\ donors[d].state = "DONOR_ONBOARDED"
              /\ donors'[d].state = "ELIGIBILITY_DECISION")]_vars

\* bank b is marked verified while its state is still below VERIFIED
VerifiedEarly(b) ==
    /\ banks[b].is_verified
    /\ banks[b].state \in {"ACCOUNT_CREATED", "VERIFICATION_PENDING"}

\* C39: a bank that is marked verified while its state is ACCOUNT_CREATED or
\* VERIFICATION_PENDING is not blocked there: as the operations keep being
\* requested, its state reaches VERIFIED.
C39_VerifiedBankReachesVerified ==
    \A b \in Banks : VerifiedEarly(b) ~> (banks[b].state = "VERIFIED")

\* C40: a donor in COUNSELING_REQUESTED is not blocked there: with the bank's
\* templates held fixed, as sign_consent and verify_consent keep being
\* requested, the donor reaches CONSENT_PENDING.
C40_DonorLeavesCounselingRequested ==
    \A d \in Donors :
        (donors[d].state = "COUNSELING_REQUESTED") ~>
            (donors[d].state = "CONSENT_PENDING")
====
